---- MODULE Spec2Model ----
(***************************************************************************)
(* The dashboard event bus (DashboardEventEmitter) and the WebSocket       *)
(* transport that replays its retained history to a new connection and     *)
(* then streams live events to it (startDashboardServer).                  *)
(*                                                                         *)
(* The program runs on one JavaScript thread: a producer's call of         *)
(* emitDashboard, the body of the 'connection' listener and the body of    *)
(* the ws 'close' listener each run to completion.  emitDashboard is       *)
(* modelled in steps (buffer update, one step per listener call, return)   *)
(* so that the states a listener observes are states of the model; while   *)
(* an emit is in progress no other handler can start.                      *)
(***************************************************************************)
EXTENDS Integers, Sequences, FiniteSets

\* ---------------------------------------------------------------- bounds

\* Number of emitDashboard calls explored.
MaxPublish == 3

\* Capacity of the retained history.  The emitter fixes it at 100
\* (private maxEvents = 100); the model explores a small capacity so that
\* eviction happens within MaxPublish publishes.
maxEvents == 2

\* Number of changes a caller of getRecentEvents makes to the arrays it was
\* handed.
MaxCallerOps == 2

\* Largest absolute value of the chat ids explored.
MaxChatId == 12

\* Number of pieces the JID strings explored are made of.
MaxPieces == 3

\* ------------------------------------------------------------ data model

\* The WebSocket connections explored; each connects at most once.
Conn == {"c1", "c2"}

\* Producer-supplied timestamps: strings, not ordered by publish order.
Timestamps == {"09:00", "08:00"}

\* The opaque payload (data: unknown).  What matters to the code is only
\* whether JSON.stringify accepts it: it throws a TypeError on a circular
\* structure (or a BigInt).
Payloads == {"plain", "circular"}

\* Marker for "has not happened".
Never == 0 - 1

VARIABLES
    recentEvents,   \* DashboardEventEmitter.recentEvents
    listeners,      \* the 'dashboard' listeners, in registration order;
                    \* a listener is named by the connection that owns it
    readyState,     \* ws.readyState of every connection ("NONE": not connected yet)
    closeHooked,    \* connections whose ws has the 'close' listener of line 53
    sent,           \* per connection, the messages passed to ws.send, in order
    guarded,        \* per connection and message: was readyState tested before the send
    pc,             \* "idle", or "emit" while emitDashboard is inside this.emit
    pending,        \* listeners of the running emit that are still to be called
    published,      \* every event passed to emitDashboard, in call order
    registered,     \* per publish: the listeners registered at that moment
    notified,       \* per publish: the listeners called so far, in call order
    outcome,        \* per publish: "running", "returned" or "threw"
    connectedAt,    \* per connection: number of publishes when it connected
    subscribedAt,   \* per connection: number of publishes at dashboardEvents.on
    leftOpenAt,     \* per connection: number of publishes when its sink left OPEN
    unsubscribedAt  \* per connection: number of publishes at dashboardEvents.off

vars == <<recentEvents, listeners, readyState, closeHooked, sent, guarded, pc,
          pending, published, registered, notified, outcome, connectedAt,
          subscribedAt, leftOpenAt, unsubscribedAt>>

\* The arrays of the emitter seen as objects: JavaScript arrays are mutable
\* and passed by reference, so what getRecentEvents hands out matters.
VARIABLES
    store,          \* contents of every array object, by reference
    usedRefs,       \* references of the arrays allocated by getRecentEvents
    held,           \* references getRecentEvents returned to its callers
    takenAt,        \* per returned reference: number of publishes at that call
    snapPublished,  \* number of emitDashboard calls on the emitter
    callerOps       \* number of changes callers made to arrays they hold

\* The far end of a connection: ws.send only queues the message, the peer
\* takes it off the socket when it reads, if it ever does.
VARIABLES
    consumed        \* per connection: number of sent messages its peer has read

\* The Telegram adapter (telegram.ts).
VARIABLES
    bot,            \* the module's bot: "null" until connectTelegram creates it
    inbound,        \* chat id and JID of the last message received, if any
    call            \* the last sendTelegramMessage call, if any

tgVars == <<bot, inbound, call>>

snapVars == <<store, usedRefs, held, takenAt, snapPublished, callerOps>>

\* The variables the event bus and its transport do not touch.
nonBusVars == <<snapVars, consumed, tgVars>>

allVars == <<vars, nonBusVars>>

\* The array held in this.recentEvents, and the arrays a spread can allocate.
RecentRef == "recentEvents"
SnapRefs == {"a1", "a2"}
Refs == {RecentRef} \cup SnapRefs

\* ------------------------------------------------------------- operators

Last(s) == s[Len(s)]

\* A push that keeps the array ordered by timestamp instead of call order.
PushByTimestamp(a, e) ==
    IF a # <<>> /\ e.timestamp = "08:00" /\ Last(a).timestamp = "09:00"
    THEN Append(SubSeq(a, 1, Len(a) - 1), e) \o <<Last(a)>>
    ELSE Append(a, e)

\* Array.prototype.push.
Push(a, e) == Append(a, e)

\* Array.prototype.pop in the place of shift: drops the newest element.
Pop(a) == SubSeq(a, 1, Len(a) - 1)

\* Array.prototype.shift.
Shift(a) == Tail(a)

\* A buffer update that has not happened yet when the listeners run (emit
\* called before push).
RetainDeferred(events, e) == events

\* emitDashboard, lines 21-24: push, then shift once if over capacity.
RetainAfterPush(events, e) ==
    LET pushed == Push(events, e)
    IN  IF Len(pushed) > maxEvents THEN Shift(pushed) ELSE pushed

\* getRecentEvents: a copy of the retained array.
GetRecentEvents(events) == [i \in 1..Len(events) |-> events[i]]

\* getRecentEvents handing out the emitter's own array.
AliasTarget(self, fresh) == self

\* The array getRecentEvents returns: [...this.recentEvents] is a new array.
CopyTarget(self, fresh) == fresh

HistoryMessage(recent) == [type |-> "history", events |-> recent]
EventMessage(event) == [type |-> "event", event |-> event]

EventsOf(msg) == IF msg.type = "history" THEN msg.events ELSE <<msg.event>>

\* JSON.stringify of a message: throws when an event in it carries a payload
\* it cannot serialize, otherwise yields the text, which is represented by
\* the message it encodes.
JSONStringify(msg) ==
    IF \E i \in 1..Len(EventsOf(msg)) : EventsOf(msg)[i].data = "circular"
    THEN [ok |-> FALSE]
    ELSE [ok |-> TRUE, text |-> msg]

\* A handler that sends without looking at readyState.
SinkNotTested(state) == TRUE

\* The test of line 47: ws.readyState === WebSocket.OPEN.
SinkIsOpen(state) == state = "OPEN"

\* A registration that adds the listener twice.
OnTwice(ls, h) == Append(Append(ls, h), h)

\* EventEmitter.on: append to the listener array.
On(ls, h) == Append(ls, h)

\* A removal that leaves the listener registered.
OffKeeps(ls, h) == ls

\* A removal by ls.splice(ls.indexOf(h), 1): when h is not registered indexOf
\* yields -1 and splice removes the last listener.
OffSplice(ls, h) ==
    IF \E i \in 1..Len(ls) : ls[i] = h
    THEN LET i == CHOOSE j \in 1..Len(ls) :
                      ls[j] = h /\ \A k \in 1..(j-1) : ls[k] # h
         IN  SubSeq(ls, 1, i - 1) \o SubSeq(ls, i + 1, Len(ls))
    ELSE SubSeq(ls, 1, Len(ls) - 1)

\* EventEmitter.off: remove the most recently added occurrence of the
\* listener; nothing happens when it is not registered.
Off(ls, h) ==
    IF \E i \in 1..Len(ls) : ls[i] = h
    THEN LET i == CHOOSE j \in 1..Len(ls) :
                      ls[j] = h /\ \A k \in (j+1)..Len(ls) : ls[k] # h
         IN  SubSeq(ls, 1, i - 1) \o SubSeq(ls, i + 1, Len(ls))
    ELSE ls

\* ------------------------------------------------------------------ Init

Init ==
    /\ recentEvents = <<>>
    /\ listeners = <<>>
    /\ readyState = [c \in Conn |-> "NONE"]
    /\ closeHooked = {}
    /\ sent = [c \in Conn |-> <<>>]
    /\ guarded = [c \in Conn |-> <<>>]
    /\ pc = "idle"
    /\ pending = <<>>
    /\ published = <<>>
    /\ registered = <<>>
    /\ notified = <<>>
    /\ outcome = <<>>
    /\ connectedAt = [c \in Conn |-> Never]
    /\ subscribedAt = [c \in Conn |-> Never]
    /\ leftOpenAt = [c \in Conn |-> Never]
    /\ unsubscribedAt = [c \in Conn |-> Never]
    /\ store = [r \in Refs |-> <<>>]
    /\ usedRefs = {}
    /\ held = {}
    /\ takenAt = [r \in Refs |-> Never]
    /\ snapPublished = 0
    /\ callerOps = 0
    /\ consumed = [c \in Conn |-> 0]
    /\ bot = "null"
    /\ inbound = [seen |-> FALSE]
    /\ call = [made |-> FALSE]

\* --------------------------------------------------------------- actions

\* emitDashboard(event), lines 21-25 up to the entry of this.emit: the buffer
\* update, and the copy of the listener array that emit iterates over.
EmitDashboard(ts, data) ==
    /\ pc = "idle"
    /\ Len(published) < MaxPublish
    /\ LET event == [id |-> Len(published) + 1, timestamp |-> ts, data |-> data]
       IN  /\ recentEvents' = RetainAfterPush(recentEvents, event)
           /\ published' = Append(published, event)
    /\ pending' = listeners
    /\ registered' = Append(registered, listeners)
    /\ notified' = Append(notified, <<>>)
    /\ outcome' = Append(outcome, "running")
    /\ pc' = "emit"
    /\ UNCHANGED <<listeners, readyState, closeHooked, sent, guarded,
                   connectedAt, subscribedAt, leftOpenAt, unsubscribedAt>>
    /\ UNCHANGED nonBusVars

\* this.emit calls the next listener: the handler of lines 46-50.  An
\* exception thrown by the handler leaves emit, and emitDashboard, at once.
InvokeListener ==
    /\ pc = "emit"
    /\ pending # <<>>
    /\ LET c == Head(pending)
           n == Len(published)
           json == JSONStringify(EventMessage(Last(published)))
       IN  /\ notified' = [notified EXCEPT ![n] = Append(@, c)]
           /\ IF SinkIsOpen(readyState[c])
              THEN IF json.ok
                   THEN /\ sent' = [sent EXCEPT ![c] = Append(@, json.text)]
                        /\ guarded' = [guarded EXCEPT ![c] = Append(@, TRUE)]
                        /\ pending' = Tail(pending)
                        /\ UNCHANGED <<pc, outcome>>
                   ELSE /\ pending' = <<>>
                        /\ pc' = "idle"
                        /\ outcome' = [outcome EXCEPT ![n] = "threw"]
                        /\ UNCHANGED <<sent, guarded>>
              ELSE /\ pending' = Tail(pending)
                   /\ UNCHANGED <<sent, guarded, pc, outcome>>
    /\ UNCHANGED <<recentEvents, listeners, readyState, closeHooked, published,
                   registered, connectedAt, subscribedAt, leftOpenAt,
                   unsubscribedAt>>
    /\ UNCHANGED nonBusVars

\* Every listener has been called: emit and emitDashboard return.
EmitReturn ==
    /\ pc = "emit"
    /\ pending = <<>>
    /\ pc' = "idle"
    /\ outcome' = [outcome EXCEPT ![Len(published)] = "returned"]
    /\ UNCHANGED <<recentEvents, listeners, readyState, closeHooked, sent,
                   guarded, pending, published, registered, notified,
                   connectedAt, subscribedAt, leftOpenAt, unsubscribedAt>>
    /\ UNCHANGED nonBusVars

\* A connection listener whose snapshot is taken with splice(0) in the place
\* of a copy: it empties the retained array.
ConnectDraining(c) ==
    /\ pc = "idle"
    /\ readyState[c] = "NONE"
    /\ readyState' = [readyState EXCEPT ![c] = "OPEN"]
    /\ connectedAt' = [connectedAt EXCEPT ![c] = Len(published)]
    /\ LET recent == GetRecentEvents(recentEvents)
           json == JSONStringify(HistoryMessage(recent))
       IN  IF json.ok
           THEN /\ sent' = [sent EXCEPT ![c] = Append(@, json.text)]
                /\ guarded' = [guarded EXCEPT ![c] = Append(@, FALSE)]
                /\ listeners' = On(listeners, c)
                /\ closeHooked' = closeHooked \cup {c}
                /\ subscribedAt' = [subscribedAt EXCEPT ![c] = Len(published)]
           ELSE UNCHANGED <<sent, guarded, listeners, closeHooked, subscribedAt>>
    /\ recentEvents' = <<>>
    /\ UNCHANGED <<pc, pending, published, registered, notified,
                   outcome, leftOpenAt, unsubscribedAt>>
    /\ UNCHANGED nonBusVars

\* The 'connection' listener, lines 39-57, for a new open socket: snapshot,
\* history send (no readyState test), registration of the handler and of the
\* 'close' listener.  If JSON.stringify throws on the history the listener
\* is left before anything is sent or registered.
Connect(c) ==
    /\ pc = "idle"
    /\ readyState[c] = "NONE"
    /\ readyState' = [readyState EXCEPT ![c] = "OPEN"]
    /\ connectedAt' = [connectedAt EXCEPT ![c] = Len(published)]
    /\ LET recent == GetRecentEvents(recentEvents)
           json == JSONStringify(HistoryMessage(recent))
       IN  IF json.ok
           THEN /\ sent' = [sent EXCEPT ![c] = Append(@, json.text)]
                /\ guarded' = [guarded EXCEPT ![c] = Append(@, FALSE)]
                /\ listeners' = On(listeners, c)
                /\ closeHooked' = closeHooked \cup {c}
                /\ subscribedAt' = [subscribedAt EXCEPT ![c] = Len(published)]
           ELSE UNCHANGED <<sent, guarded, listeners, closeHooked, subscribedAt>>
    /\ UNCHANGED <<recentEvents, pc, pending, published, registered, notified,
                   outcome, leftOpenAt, unsubscribedAt>>
    /\ UNCHANGED nonBusVars

\* The peer or the network starts closing the socket: readyState leaves OPEN
\* before the 'close' event is emitted.
SinkClosing(c) ==
    /\ pc = "idle"
    /\ readyState[c] = "OPEN"
    /\ readyState' = [readyState EXCEPT ![c] = "CLOSING"]
    /\ leftOpenAt' = [leftOpenAt EXCEPT ![c] = Len(published)]
    /\ UNCHANGED <<recentEvents, listeners, closeHooked, sent, guarded, pc,
                   pending, published, registered, notified, outcome,
                   connectedAt, subscribedAt, unsubscribedAt>>
    /\ UNCHANGED nonBusVars

\* The socket is closed and ws emits 'close': the listener of lines 53-56
\* removes the handler, if that listener was registered.
WsClose(c) ==
    /\ pc = "idle"
    /\ readyState[c] = "CLOSING"
    /\ readyState' = [readyState EXCEPT ![c] = "CLOSED"]
    /\ IF c \in closeHooked
       THEN /\ listeners' = Off(listeners, c)
            /\ unsubscribedAt' = [unsubscribedAt EXCEPT ![c] = Len(published)]
       ELSE UNCHANGED <<listeners, unsubscribedAt>>
    /\ UNCHANGED <<recentEvents, closeHooked, sent, guarded, pc, pending,
                   published, registered, notified, outcome, connectedAt,
                   subscribedAt, leftOpenAt>>
    /\ UNCHANGED nonBusVars

Next ==
    \/ \E ts \in Timestamps, data \in Payloads : EmitDashboard(ts, data)
    \/ InvokeListener
    \/ EmitReturn
    \/ \E c \in Conn : Connect(c)
    \/ \E c \in Conn : SinkClosing(c)
    \/ \E c \in Conn : WsClose(c)

Spec == Init /\ [][Next]_allVars

\* ------------------------------------------- the emitter's arrays as objects

\* emitDashboard, lines 21-24, on the array object: push and shift change the
\* array held in this.recentEvents in place.
ArrayEmit(ts) ==
    /\ snapPublished < MaxPublish
    /\ LET event == [id |-> snapPublished + 1, timestamp |-> ts, data |-> "plain"]
       IN  store' = [store EXCEPT ![RecentRef] = RetainAfterPush(@, event)]
    /\ snapPublished' = snapPublished + 1
    /\ UNCHANGED <<usedRefs, held, takenAt, callerOps>>
    /\ UNCHANGED vars
    /\ UNCHANGED <<consumed, tgVars>>

\* getRecentEvents, lines 28-30: the spread allocates an array, fills it with
\* the elements of this.recentEvents and returns it.
ArrayGetRecentEvents(fresh) ==
    /\ fresh \in SnapRefs \ usedRefs
    /\ LET target == CopyTarget(RecentRef, fresh)
       IN  /\ store' = [store EXCEPT ![target] = GetRecentEvents(store[RecentRef])]
           /\ held' = held \cup {target}
           /\ takenAt' = [takenAt EXCEPT ![target] = snapPublished]
    /\ usedRefs' = usedRefs \cup {fresh}
    /\ UNCHANGED <<snapPublished, callerOps>>
    /\ UNCHANGED vars
    /\ UNCHANGED <<consumed, tgVars>>

\* What a caller can do to an array: add, remove or reorder elements.
CallerOps == {"push", "pop", "reverse"}

ApplyCallerOp(a, op) ==
    CASE op = "push" -> Append(a, [id |-> 0, timestamp |-> "09:00", data |-> "plain"])
      [] op = "pop" -> SubSeq(a, 1, Len(a) - 1)
      [] op = "reverse" -> [i \in 1..Len(a) |-> a[Len(a) + 1 - i]]

\* A caller changes an array it got from getRecentEvents.
CallerMutates(r, op) ==
    /\ r \in held
    /\ callerOps < MaxCallerOps
    /\ op = "pop" => store[r] # <<>>
    /\ store' = [store EXCEPT ![r] = ApplyCallerOp(@, op)]
    /\ callerOps' = callerOps + 1
    /\ UNCHANGED <<usedRefs, held, takenAt, snapPublished>>
    /\ UNCHANGED vars
    /\ UNCHANGED <<consumed, tgVars>>

SnapshotNext ==
    \/ \E ts \in Timestamps : ArrayEmit(ts)
    \/ \E fresh \in SnapRefs : ArrayGetRecentEvents(fresh)
    \/ \E r \in Refs, op \in CallerOps : CallerMutates(r, op)

SnapshotSpec == Init /\ [][SnapshotNext]_allVars

\* ------------------------------------------------- peers that read or do not

\* The peer of a connection reads the next message queued for it.  Nothing in
\* the server waits for this step.
PeerReads(c) ==
    /\ pc = "idle"
    /\ consumed[c] < Len(sent[c])
    /\ consumed' = [consumed EXCEPT ![c] = @ + 1]
    /\ UNCHANGED <<snapVars, tgVars>>
    /\ UNCHANGED vars

PeersNext ==
    \/ Next
    \/ \E c \in Conn : PeerReads(c)

PeersSpec == Init /\ [][PeersNext]_allVars

\* --------------------------------------------------- the Telegram adapter

\* Strings are sequences of one-character strings.
Suffix == <<"@", "t", "e", "l", "e", "g", "r", "a", "m">>

Digits == <<"0", "1", "2", "3", "4", "5", "6", "7", "8", "9">>

IsDigit(ch) == \E d \in 1..10 : Digits[d] = ch

DigitValue(ch) == (CHOOSE d \in 1..10 : Digits[d] = ch) - 1

\* Number-to-string conversion of a template literal, for an integer.
RECURSIVE NatToString(_)
NatToString(n) ==
    IF n < 10 THEN <<Digits[n + 1]>>
    ELSE NatToString(n \div 10) \o <<Digits[(n % 10) + 1]>>

NumberToString(n) == IF n < 0 THEN <<"-">> \o NatToString(0 - n) ELSE NatToString(n)

\* String.prototype.endsWith.
EndsWith(s, suffix) ==
    /\ Len(s) >= Len(suffix)
    /\ SubSeq(s, Len(s) - Len(suffix) + 1, Len(s)) = suffix

\* String.prototype.replace with a string pattern and '': the first
\* occurrence of the pattern is removed, wherever it is.
ReplaceFirst(s, pattern) ==
    LET hits == {i \in 1..(Len(s) - Len(pattern) + 1) :
                    SubSeq(s, i, i + Len(pattern) - 1) = pattern}
    IN  IF hits = {} THEN s
        ELSE LET i == CHOOSE h \in hits : \A k \in hits : h <= k
             IN  SubSeq(s, 1, i - 1) \o SubSeq(s, i + Len(pattern), Len(s))

NaN == [nan |-> TRUE]
Num(v) == [nan |-> FALSE, value |-> v]

RECURSIVE SkipWhiteSpace(_)
SkipWhiteSpace(s) ==
    IF s # <<>> /\ Head(s) = " " THEN SkipWhiteSpace(Tail(s)) ELSE s

\* The value of the longest run of digits at the start of s, after acc.
RECURSIVE LeadingDigits(_, _)
LeadingDigits(s, acc) ==
    IF s # <<>> /\ IsDigit(Head(s))
    THEN LeadingDigits(Tail(s), acc * 10 + DigitValue(Head(s)))
    ELSE acc

\* parseInt(s, 10): leading white space is skipped, a sign is read, then the
\* longest run of digits; whatever follows is ignored; NaN without a digit.
ParseInt(s) ==
    LET t == SkipWhiteSpace(s)
        negative == t # <<>> /\ Head(t) = "-"
        u == IF t # <<>> /\ Head(t) \in {"-", "+"} THEN Tail(t) ELSE t
    IN  IF u = <<>> \/ ~IsDigit(Head(u)) THEN NaN
        ELSE IF negative THEN Num(0 - LeadingDigits(u, 0))
        ELSE Num(LeadingDigits(u, 0))

Null == [null |-> TRUE]
ChatId(v) == [null |-> FALSE, id |-> v]

\* telegramChatIdToJid, lines 28-30.
telegramChatIdToJid(chatId) == NumberToString(chatId) \o Suffix

\* jidToTelegramChatId, lines 35-39.
jidToTelegramChatId(jid) ==
    IF ~EndsWith(jid, Suffix) THEN Null
    ELSE LET id == ParseInt(ReplaceFirst(jid, Suffix))
         IN  IF id = NaN THEN Null ELSE ChatId(id.value)

ChatIds == (0 - MaxChatId)..MaxChatId

\* The JID strings explored: up to MaxPieces pieces, each a digit, a sign, a
\* letter, a blank or the suffix itself.
Pieces == {<<"7">>, <<"-">>, <<"a">>, <<" ">>, Suffix}

RECURSIVE StringsOf(_)
StringsOf(k) ==
    IF k = 0 THEN {<<>>}
    ELSE LET shorter == StringsOf(k - 1)
         IN  shorter \cup {s \o p : s \in shorter, p \in Pieces}

JidInputs == StringsOf(MaxPieces)

\* connectTelegram, lines 83-92: the bot is created when a token is set.
ConnectTelegram(token) ==
    /\ bot = "null"
    /\ bot' = IF token THEN "bot" ELSE "null"
    /\ UNCHANGED <<inbound, call>>
    /\ UNCHANGED <<snapVars, consumed>>
    /\ UNCHANGED vars

\* The 'message' listener, lines 93-107: the chat id of a text message is
\* turned into a JID under which the chat is stored.
OnMessage(chatId) ==
    /\ bot = "bot"
    /\ inbound' = [seen |-> TRUE, chatId |-> chatId,
                   jid |-> telegramChatIdToJid(chatId)]
    /\ UNCHANGED <<bot, call>>
    /\ UNCHANGED <<snapVars, consumed>>
    /\ UNCHANGED vars

\* sendTelegramMessage, lines 44-57, up to the await of bot.sendMessage.
SendTelegramMessage(jid) ==
    /\ call.made => call.promise # "pending"
    /\ IF bot = "null"
       THEN call' = [made |-> TRUE, jid |-> jid, botSet |-> FALSE,
                     chatId |-> Null, attempted |-> FALSE, failed |-> FALSE,
                     promise |-> "resolved",
                     log |-> "Telegram bot not initialized"]
       ELSE LET chatId == jidToTelegramChatId(jid)
            IN  IF chatId = Null
                THEN call' = [made |-> TRUE, jid |-> jid, botSet |-> TRUE,
                              chatId |-> Null, attempted |-> FALSE,
                              failed |-> FALSE, promise |-> "resolved",
                              log |-> "Invalid Telegram JID"]
                ELSE call' = [made |-> TRUE, jid |-> jid, botSet |-> TRUE,
                              chatId |-> chatId, attempted |-> TRUE,
                              failed |-> FALSE, promise |-> "pending",
                              log |-> "none"]
    /\ UNCHANGED <<bot, inbound>>
    /\ UNCHANGED <<snapVars, consumed>>
    /\ UNCHANGED vars

\* bot.sendMessage resolves: lines 57-58, then the function returns.
SendMessageResolves ==
    /\ call.made
    /\ call.promise = "pending"
    /\ call' = [call EXCEPT !.promise = "resolved",
                            !.log = "Telegram message sent"]
    /\ UNCHANGED <<bot, inbound>>
    /\ UNCHANGED <<snapVars, consumed>>
    /\ UNCHANGED vars

\* A send outside any try/catch: the rejection reaches the caller.
SendMessageRejectsUncaught ==
    /\ call.made
    /\ call.promise = "pending"
    /\ call' = [call EXCEPT !.promise = "rejected", !.failed = TRUE]
    /\ UNCHANGED <<bot, inbound>>
    /\ UNCHANGED <<snapVars, consumed>>
    /\ UNCHANGED vars

\* bot.sendMessage rejects: the catch of lines 59-61 logs the error and the
\* function returns.
SendMessageRejects ==
    /\ call.made
    /\ call.promise = "pending"
    /\ call' = [call EXCEPT !.promise = "resolved", !.failed = TRUE,
                            !.log = "Failed to send Telegram message"]
    /\ UNCHANGED <<bot, inbound>>
    /\ UNCHANGED <<snapVars, consumed>>
    /\ UNCHANGED vars

TelegramNext ==
    \/ \E token \in BOOLEAN : ConnectTelegram(token)
    \/ \E chatId \in ChatIds : OnMessage(chatId)
    \/ \E jid \in JidInputs : SendTelegramMessage(jid)
    \/ inbound.seen /\ SendTelegramMessage(inbound.jid)
    \/ SendMessageResolves
    \/ SendMessageRejects

TelegramSpec == Init /\ [][TelegramNext]_allVars

\* ---------------------------------------------------------------- claims

\* The events of the live ("event") messages sent to a connection, in order.
LiveEvents(c) ==
    LET live == SelectSeq(sent[c], LAMBDA m : m.type = "event")
    IN  [i \in 1..Len(live) |-> live[i].event]

\* The number of publishes up to which a connection's sink was open.
OpenUntil(c) == IF readyState[c] = "OPEN" THEN Len(published) ELSE leftOpenAt[c]

\* C1: a connection opened after K <= capacity publishes receives exactly
\* those K events as its history, then every event published after its
\* connect point and while its sink is open exactly once, in publish order,
\* and no event both in the history and live.
C1_NoGapNoDuplicate ==
    pc = "idle" =>
        \A c \in Conn :
            connectedAt[c] # Never =>
                /\ connectedAt[c] <= maxEvents =>
                       /\ sent[c] # <<>>
                       /\ sent[c][1]
                            = HistoryMessage(SubSeq(published, 1, connectedAt[c]))
                /\ LiveEvents(c)
                     = SubSeq(published, connectedAt[c] + 1, OpenUntil(c))
                /\ \A i \in 1..Len(LiveEvents(c)) :
                       LiveEvents(c)[i].id > connectedAt[c]

Min(a, b) == IF a < b THEN a ELSE b

\* The last n elements of s.
LastN(s, n) == SubSeq(s, Len(s) - n + 1, Len(s))

\* C2: after any sequence of N emitDashboard calls, getRecentEvents() is
\* exactly the last min(N, capacity) published events, oldest first, whatever
\* the timestamps of the events.
C2_RecentIsTailOfPublished ==
    GetRecentEvents(recentEvents)
        = LastN(published, Min(Len(published), maxEvents))

\* More events than the capacity were published, the last two with
\* timestamps that run against the publish order.
C2_Witness ==
    /\ Len(published) > maxEvents
    /\ published[Len(published) - 1].timestamp = "09:00"
    /\ Last(published).timestamp = "08:00"
    /\ Len(GetRecentEvents(recentEvents)) = maxEvents

\* C3: in every state a producer, a listener or a connection handler can
\* observe, the retained history holds at most capacity events; and a publish
\* made when the history is full evicts the oldest event and no other.
C3_BoundedFifo ==
    /\ [](Len(recentEvents) <= maxEvents)
    /\ [][(Len(published') = Len(published) + 1 /\ Len(recentEvents) = maxEvents)
            => recentEvents' = Append(Tail(recentEvents), Last(published'))]_vars

\* A listener is about to be called by a publish that evicted an event.
C3_Witness ==
    /\ pc = "emit"
    /\ pending # <<>>
    /\ Len(published) > maxEvents
    /\ Len(recentEvents) = maxEvents
    /\ recentEvents[1].id = Len(published) - maxEvents + 1

\* C4: a connection opened after more than capacity publishes receives as its
\* history exactly the most recent capacity events, in publish order, and is
\* never sent an evicted event, in the history or live.
C4_OverflowHistory ==
    \A c \in Conn :
        connectedAt[c] > maxEvents =>
            /\ sent[c] # <<>>
            /\ sent[c][1] = HistoryMessage(
                   SubSeq(published, connectedAt[c] - maxEvents + 1, connectedAt[c]))
            /\ \A i \in 1..Len(sent[c]) :
                   \A j \in 1..Len(EventsOf(sent[c][i])) :
                       EventsOf(sent[c][i])[j].id > connectedAt[c] - maxEvents

\* C5: once the sink of a connection has left OPEN nothing more is sent to
\* it, both while its handler is still registered (the 'close' listener has
\* not run yet) and after the handler has been removed.
C5_NoSendAfterClose ==
    [][\A c \in Conn :
          readyState[c] \in {"CLOSING", "CLOSED"} => sent'[c] = sent[c]]_vars

\* A connection's handler was called for an event published while its sink
\* was closing, the connection was then unsubscribed, and a later event
\* reached another connection.
C5_Witness ==
    \E c \in Conn : \E d \in Conn \ {c} :
        /\ readyState[c] = "CLOSED"
        /\ unsubscribedAt[c] # Never
        /\ \E n \in (leftOpenAt[c] + 1)..unsubscribedAt[c] :
               \E i \in 1..Len(notified[n]) : notified[n][i] = c
        /\ \E m \in (unsubscribedAt[c] + 1)..Len(published) :
               \E i \in 1..Len(sent[d]) : sent[d][i] = EventMessage(published[m])

\* C6: every send to a sink, the history send as well as every live send, is
\* made after a test that the sink is open.
C6_EverySendGuarded ==
    \A c \in Conn : \A i \in 1..Len(guarded[c]) : guarded[c][i]

\* C7: emitDashboard never fails: whatever the payload and the state of the
\* subscribed sinks, the call returns normally with the event appended to the
\* retained history.
C7_PublishNeverThrows ==
    \A n \in 1..Len(outcome) :
        /\ outcome[n] # "threw"
        /\ n = Len(outcome) => Last(recentEvents) = published[n]

\* C8: a publish calls every listener registered at the moment of the publish
\* exactly once, in registration order.
C8_AllListenersCalledInOrder ==
    \A n \in 1..Len(outcome) :
        outcome[n] # "running" => notified[n] = registered[n]

\* C9: a listener is called only for events published after its registration
\* and before its removal, never for an event that was already published
\* when it subscribed.
C9_NoRetroactiveDelivery ==
    \A n \in 1..Len(notified) :
        \A i \in 1..Len(notified[n]) :
            LET c == notified[n][i]
            IN  /\ subscribedAt[c] # Never
                /\ subscribedAt[c] < n
                /\ unsubscribedAt[c] # Never => n <= unsubscribedAt[c]

\* A listener registered when an event was already retained was called for a
\* later event and removed, and another event was published after that.
C9_Witness ==
    \E c \in Conn :
        /\ subscribedAt[c] >= 1
        /\ recentEvents # <<>>
        /\ \E n \in 1..Len(notified) :
               \E i \in 1..Len(notified[n]) : notified[n][i] = c
        /\ unsubscribedAt[c] # Never
        /\ Len(published) > unsubscribedAt[c]
        /\ pc = "idle"

\* C10: removing a listener that is not registered (removed before, never
\* registered, or of a closed connection) changes nothing, and removing a
\* listener twice is the same as removing it once.
C10_UnsubscribeIdempotent ==
    \A c \in Conn :
        /\ Off(Off(listeners, c), c) = Off(listeners, c)
        /\ (\A i \in 1..Len(listeners) : listeners[i] # c)
               => Off(listeners, c) = listeners

\* The listener of a closed connection has been removed while the listener
\* of another connection is still registered.
C10_Witness ==
    \E c \in Conn :
        /\ readyState[c] = "CLOSED"
        /\ unsubscribedAt[c] # Never
        /\ listeners # <<>>
        /\ \A i \in 1..Len(listeners) : listeners[i] # c

\* C11: getRecentEvents returns an independent snapshot: a caller adding,
\* removing or reordering elements of the returned array never changes the
\* retained history, and a later publish never changes a returned array.
C11_IndependentSnapshot ==
    [][/\ callerOps' # callerOps => store'[RecentRef] = store[RecentRef]
       /\ snapPublished' # snapPublished
              => \A r \in held : store'[r] = store[r]]_allVars

\* A returned array was changed by its caller and an event was published
\* after it was returned; the retained history holds the published events.
C11_Witness ==
    \E r \in held :
        /\ callerOps > 0
        /\ snapPublished > takenAt[r]
        /\ takenAt[r] > 0
        /\ store[r] # store[RecentRef]
        /\ Len(store[RecentRef]) = Min(snapPublished, maxEvents)
        /\ \A i \in 1..Len(store[RecentRef]) : store[RecentRef][i].id > 0

\* The sink of d was open and its handler registered when event n was
\* published.
OpenAtPublish(d, n) ==
    /\ \E i \in 1..Len(registered[n]) : registered[n][i] = d
    /\ readyState[d] = "OPEN" \/ leftOpenAt[d] >= n

\* C12: a connection that never reads what is sent to it does not block the
\* others: every event published while it is open is still sent to every
\* other open connection, and the publish returns to the producer.
C12_SlowSinkDoesNotBlock ==
    \A n \in 1..Len(outcome) :
        outcome[n] # "running" =>
            \A c \in Conn :
                (OpenAtPublish(c, n) /\ consumed[c] = 0) =>
                    /\ outcome[n] = "returned"
                    /\ \A d \in Conn \ {c} :
                           OpenAtPublish(d, n) =>
                               \E i \in 1..Len(sent[d]) :
                                   sent[d][i] = EventMessage(published[n])

\* The connections whose 'close' event has not been handled yet.
NotYetClosed == {c \in Conn : readyState[c] \in {"OPEN", "CLOSING"}}

\* C13: every registered listener belongs to one connection whose close has
\* not been handled, no connection has its listener registered twice, the
\* listener of a connection whose close was handled is not registered, and
\* there are never more listeners than connections not yet closed.
C13_ListenerPerLiveConnection ==
    /\ \A i \in 1..Len(listeners) : listeners[i] \in NotYetClosed
    /\ \A i, j \in 1..Len(listeners) : listeners[i] = listeners[j] => i = j
    /\ \A c \in Conn :
           readyState[c] = "CLOSED" => \A i \in 1..Len(listeners) : listeners[i] # c
    /\ Len(listeners) <= Cardinality(NotYetClosed)

\* One connection was subscribed and its close handled; another, whose sink
\* is closing, is still subscribed.
C13_Witness ==
    \E c \in Conn : \E d \in Conn \ {c} :
        /\ readyState[c] = "CLOSED"
        /\ unsubscribedAt[c] # Never
        /\ readyState[d] = "CLOSING"
        /\ listeners = <<d>>

\* The number of listener calls made so far.
RECURSIVE CallsIn(_)
CallsIn(calls) ==
    IF calls = <<>> THEN 0 ELSE Len(Head(calls)) + CallsIn(Tail(calls))

\* C14: only a publish changes the retained history and only a publish calls
\* listeners: a step of the connection listener (snapshot, history send,
\* subscribe) or of the 'close' listener (unsubscribe) leaves the retained
\* history as it is and calls no listener.
C14_OnlyPublishMutatesAndNotifies ==
    [][/\ recentEvents' # recentEvents
              => (pc = "idle" /\ pc' = "emit"
                  /\ Len(published') = Len(published) + 1)
       /\ CallsIn(notified') # CallsIn(notified) => pc = "emit"
       /\ readyState' # readyState
              => (recentEvents' = recentEvents
                  /\ CallsIn(notified') = CallsIn(notified)
                  /\ published' = published)]_allVars

\* A connection took a snapshot of a non-empty history and was later closed
\* and unsubscribed, listeners were called, and the history is still there.
C14_Witness ==
    \E c \in Conn :
        /\ connectedAt[c] >= 1
        /\ readyState[c] = "CLOSED"
        /\ unsubscribedAt[c] # Never
        /\ CallsIn(notified) > 0
        /\ recentEvents # <<>>
        /\ pc = "idle"

\* C15: within a publish the retained history is updated before any listener
\* is called: whenever a listener is about to be called, or has been called,
\* for event e, e is the last element of the retained history and the
\* history holds at most capacity events.
C15_HistoryUpdatedBeforeNotify ==
    pc = "emit" =>
        /\ recentEvents # <<>>
        /\ Last(recentEvents) = Last(published)
        /\ Len(recentEvents) <= maxEvents

\* Two listeners are about to be called for an event that filled the history.
C15_Witness ==
    /\ pc = "emit"
    /\ Len(pending) = 2
    /\ Len(recentEvents) = maxEvents
    /\ Last(recentEvents).id = Len(published)

\* C16: every connection is sent exactly one history message, as the first
\* message to its sink, and after it one live message for each event
\* published while its sink is open.
C16_HistoryFirstThenLive ==
    pc = "idle" =>
        \A c \in Conn :
            connectedAt[c] # Never =>
                /\ sent[c] # <<>>
                /\ sent[c][1].type = "history"
                /\ \A i \in 2..Len(sent[c]) : sent[c][i].type = "event"
                /\ Len(sent[c]) - 1 = OpenUntil(c) - connectedAt[c]

\* The number of times message m was sent to connection d.
TimesSent(d, m) == Cardinality({i \in 1..Len(sent[d]) : sent[d][i] = m})

\* C17: when the delivery of an event to one connection fails (its handler
\* throws), every other open connection, the ones registered after it
\* included, is still sent that event exactly once.
C17_FailureDoesNotStopFanOut ==
    \A n \in 1..Len(outcome) :
        outcome[n] = "threw" =>
            \A d \in Conn \ {Last(notified[n])} :
                OpenAtPublish(d, n) =>
                    TimesSent(d, EventMessage(published[n])) = 1

\* C18: the live events sent to a connection are a contiguous run of the
\* publish sequence that starts right after its connect point, so two
\* connections open across the same publishes are sent the same events in
\* the same order.
C18_LiveIsContiguousSegment ==
    /\ \A c \in Conn :
           \A i \in 1..Len(LiveEvents(c)) :
               LiveEvents(c)[i] = published[connectedAt[c] + i]
    /\ \A c \in Conn : \A d \in Conn :
           \A n \in 1..Len(outcome) :
               (outcome[n] # "running" /\ OpenAtPublish(c, n) /\ OpenAtPublish(d, n))
                   => TimesSent(c, EventMessage(published[n]))
                        = TimesSent(d, EventMessage(published[n]))

\* The string is an integer in decimal: an optional minus sign and digits.
IsNumber(s) ==
    /\ s # <<>>
    /\ LET digits == IF Head(s) = "-" THEN Tail(s) ELSE s
       IN  /\ digits # <<>>
           /\ \A i \in 1..Len(digits) : IsDigit(digits[i])

\* C19: the chat id mapping round-trips, jidToTelegramChatId(
\* telegramChatIdToJid(n)) = n for every integer n, negative ones included;
\* and jidToTelegramChatId returns null for every string that does not end
\* with '@telegram' or whose part before that suffix is not a number.
C19_JidRoundTripAndNull ==
    /\ inbound.seen => jidToTelegramChatId(inbound.jid) = ChatId(inbound.chatId)
    /\ (call.made /\ call.botSet) =>
           ((~EndsWith(call.jid, Suffix)
             \/ ~IsNumber(SubSeq(call.jid, 1, Len(call.jid) - Len(Suffix))))
               => call.chatId = Null)

====
